---- MODULE Spec2Model ----
(***************************************************************************)
(* A model of the micro-batcher (src/batch.go): the Batcher with its job   *)
(* queue, the scheduler loop of Start, the ticker listener startTicker,    *)
(* the per-job processJob goroutines and the JobResult futures with their  *)
(* Get readers.                                                            *)
(*                                                                         *)
(* Threads of control and the granularity of their steps:                  *)
(*   - every AddJob call is its own caller (one call per job id): the      *)
(*     unlocked test of shuttingDown, b.mu.Lock(), and the append with the *)
(*     deferred Unlock are three steps;                                    *)
(*   - the scheduler loop: one evaluation of the switch (the unlocked      *)
(*     reads of shuttingDown and len(b.jobs)), b.mu.Lock(), and the body   *)
(*     of the chosen case up to its Unlock are separate steps;             *)
(*   - the ticker listener: the receive from ticker.C, b.mu.Lock(), and    *)
(*     the flush up to its Unlock are separate steps;                      *)
(*   - processJob is one step (the processor is a pure function);          *)
(*   - Get: the test of jr.data, and the receive from jr.ch with the store *)
(*     of jr.data and the return, are separate steps.                      *)
(* The unsynchronised accesses (shuttingDown, len(b.jobs), jr.data) are    *)
(* word-sized: a racing read yields the value before or after the racing   *)
(* write, which the interleaving of these steps produces.                  *)
(***************************************************************************)
EXTENDS Naturals, Sequences, FiniteSets

\* ------------------------------------------------------------------ bounds
MaxJobs == 3        \* number of AddJob calls (job ids 1..MaxJobs)
BatchSize == 2      \* the batchSize given to NewBatcher
Frequency == 2      \* the frequency given to NewBatcher, in time units
NumReaders == 2     \* number of threads that call Get

JobIds == 1..MaxJobs
Readers == 1..NumReaders

\* The jobs the callers submit, those of the tests: Job{Id: j, Data: JobData(j)}.
JobData(j) ==
    CASE j = 1 -> "hello world"
      [] j = 2 -> "foobar"
      [] j = 3 -> "baz"
      [] OTHER -> "job 4"

\* The absent value: a nil jr.data, an empty jr.ch.
NoValue == "nil"

\* strings.ToUpper on one character: a lower-case letter becomes the
\* upper-case one, every other character (of the ASCII range) stays.
ToUpperChar(c) ==
    CASE c = "a" -> "A"  [] c = "b" -> "B"  [] c = "c" -> "C"  [] c = "d" -> "D"
      [] c = "e" -> "E"  [] c = "f" -> "F"  [] c = "g" -> "G"  [] c = "h" -> "H"
      [] c = "i" -> "I"  [] c = "j" -> "J"  [] c = "k" -> "K"  [] c = "l" -> "L"
      [] c = "m" -> "M"  [] c = "n" -> "N"  [] c = "o" -> "O"  [] c = "p" -> "P"
      [] c = "q" -> "Q"  [] c = "r" -> "R"  [] c = "s" -> "S"  [] c = "t" -> "T"
      [] c = "u" -> "U"  [] c = "v" -> "V"  [] c = "w" -> "W"  [] c = "x" -> "X"
      [] c = "y" -> "Y"  [] c = "z" -> "Z"
      [] OTHER -> c

\* strings.ToUpper: the string with every character mapped, in order.
RECURSIVE ToUpper(_)
ToUpper(s) ==
    IF s = ""
    THEN ""
    ELSE ToUpperChar(SubSeq(s, 1, 1)) \o ToUpper(SubSeq(s, 2, Len(s)))

\* The processor handed to NewBatcher by the tests and by the example
\* program: return strings.ToUpper(in).
uppercaseString(in) == ToUpper(in)

\* b.processor on the payloads the callers submit, computed once.
processorOnJobData ==
    [d \in {JobData(j) : j \in JobIds} |-> uppercaseString(d)]

\* b.processor: the function handed to NewBatcher (on a submitted payload
\* its value is looked up, and is the same).
processor(in) ==
    IF in \in DOMAIN processorOnJobData
    THEN processorOnJobData[in]
    ELSE uppercaseString(in)

\* The holders of b.mu.
Free == [kind |-> "free", id |-> 0]
ByStart == [kind |-> "Start", id |-> 0]
ByTicker == [kind |-> "startTicker", id |-> 0]
ByAddJob(j) == [kind |-> "AddJob", id |-> j]

RECURSIVE SeqToSet(_)
SeqToSet(s) == IF s = <<>> THEN {} ELSE {Head(s)} \cup SeqToSet(Tail(s))

VARIABLES
    shuttingDown,   \* b.shuttingDown
    jobs,           \* b.jobs: the queue, as the sequence of the queued jobs' ids
    data,           \* data[j]: the Data of job j (NoValue before its AddJob call)
    mu,             \* b.mu: its holder
    countdown,      \* b.ticker: time units until its next firing
    tickerC,        \* b.ticker.C (capacity 1): TRUE when a firing is buffered
    schedPc,        \* the goroutine running Start
    tickPc,         \* the goroutine running startTicker
    addPc,          \* addPc[j]: the AddJob call for job j
    task,           \* task[j]: the processJob goroutine of job j
    ch,             \* ch[j]: the retCh / jr.ch of job j (capacity 1)
    cache,          \* cache[j]: jr.data of the JobResult of job j
    rdPc,           \* rdPc[r]: reader r's position in Get
    rdJob,          \* rdJob[r]: the job whose JobResult reader r is in Get on
    extractedBy,    \* extractedBy[j]: the flush path that extracted job j from the queue
    received,       \* received[j]: the values Get calls on job j's future returned from jr.ch
    reread,         \* reread[j]: the values Get calls on job j's future returned from jr.data
    age             \* age[j]: the time units job j has been queued with Start running (kept under TimedSpec)

vars == <<shuttingDown, jobs, data, mu, countdown, tickerC, schedPc, tickPc,
          addPc, task, ch, cache, rdPc, rdJob, extractedBy, received, reread,
          age>>

batcherVars == <<shuttingDown, jobs, data, mu, countdown, tickerC, schedPc,
                 tickPc, addPc, extractedBy, age>>
readerVars == <<rdPc, rdJob, received, reread>>

\* An unrecovered panic in the goroutine running Start ends the whole process.
Alive == schedPc # "panic"

\* NewBatcher: an empty queue, shuttingDown false, the ticker already running.
Init ==
    /\ shuttingDown = FALSE
    /\ jobs = <<>>
    /\ data = [j \in JobIds |-> NoValue]
    /\ mu = Free
    /\ countdown = Frequency
    /\ tickerC = FALSE
    /\ schedPc = "notstarted"
    /\ tickPc = "notstarted"
    /\ addPc = [j \in JobIds |-> "idle"]
    /\ task = [j \in JobIds |-> "none"]
    /\ ch = [j \in JobIds |-> NoValue]
    /\ cache = [j \in JobIds |-> NoValue]
    /\ rdPc = [r \in Readers |-> "idle"]
    /\ rdJob = [r \in Readers |-> 0]
    /\ received = [j \in JobIds |-> {}]
    /\ reread = [j \in JobIds |-> {}]
    /\ extractedBy = [j \in JobIds |-> "none"]
    /\ age = [j \in JobIds |-> 0]

\* ------------------------------------------------------------ the ticker
\* One time unit passes. A firing is buffered in ticker.C, or dropped when
\* one is buffered already.
Advance ==
    /\ Alive
    /\ IF countdown = 1
       THEN countdown' = Frequency /\ tickerC' = TRUE
       ELSE countdown' = countdown - 1 /\ tickerC' = tickerC
    /\ UNCHANGED <<shuttingDown, jobs, data, mu, schedPc, tickPc, addPc, task,
                   ch, cache, rdPc, rdJob, extractedBy, received, reread,
                   age>>

\* One time unit passes, measured: the ticker as in Advance, and every job
\* that is queued while Start runs has waited one unit more (counted up to
\* Frequency + 1).
AdvanceTimed ==
    /\ Alive
    /\ IF countdown = 1
       THEN countdown' = Frequency /\ tickerC' = TRUE
       ELSE countdown' = countdown - 1 /\ tickerC' = tickerC
    /\ age' = [j \in JobIds |->
                 IF /\ j \in SeqToSet(jobs)
                    /\ schedPc # "notstarted"
                    /\ age[j] <= Frequency
                 THEN age[j] + 1
                 ELSE age[j]]
    /\ UNCHANGED <<shuttingDown, jobs, data, mu, schedPc, tickPc, addPc, task,
                   ch, cache, rdPc, rdJob, extractedBy, received, reread>>

\* One time unit passes without a firing of the ticker (the frequency of
\* five minutes of the tests of the batch size).
AdvanceNoFiring ==
    /\ countdown > 1
    /\ Advance

\* b.ticker.Reset(b.frequency): the countdown starts again. Whether a firing
\* already buffered in the channel survives depends on the Go release (kept
\* before 1.23, discarded from 1.23 on).
tickerReset ==
    /\ countdown' = Frequency
    /\ tickerC' \in {tickerC, FALSE}

\* ------------------------------------------------------------- dispatch
\* processBatch: one processJob goroutine per job of the batch.
processBatch(batch) ==
    task' = [j \in JobIds |-> IF j \in SeqToSet(batch) THEN "running" ELSE task[j]]

\* The record of which flush path ("size", "timer", "drain") extracted the
\* jobs of a batch; their time in the queue is over.
Extracted(batch, path) ==
    /\ extractedBy' = [j \in JobIds |->
                         IF j \in SeqToSet(batch) THEN path ELSE extractedBy[j]]
    /\ age' = [j \in JobIds |-> IF j \in SeqToSet(batch) THEN 0 ELSE age[j]]

\* A plausible slip: the result of another job is sent on this job's channel.
processJobOther(j) ==
    /\ Alive
    /\ task[j] = "running"
    /\ ch[j] = NoValue
    /\ \E k \in JobIds :
         /\ data[k] # NoValue
         /\ ch' = [ch EXCEPT ![j] = processor(data[k])]
    /\ task' = [task EXCEPT ![j] = "done"]
    /\ UNCHANGED <<batcherVars, cache, readerVars>>

\* processJob: res := b.processor(job.job.Data); job.retCh <- res. The send
\* blocks while the channel's single slot is full.
processJob(j) ==
    /\ Alive
    /\ task[j] = "running"
    /\ ch[j] = NoValue
    /\ ch' = [ch EXCEPT ![j] = processor(data[j])]
    /\ task' = [task EXCEPT ![j] = "done"]
    /\ UNCHANGED <<batcherVars, cache, readerVars>>

\* --------------------------------------------------------------- AddJob
\* A plausible slip: AddJob without the test of shuttingDown.
AddJobRejectsNever == FALSE

\* The test "if b.shuttingDown" that opens AddJob.
AddJobRejects == shuttingDown

\* AddJob up to its first return: the error (and a nil JobResult) when the
\* batcher is shutting down; otherwise the call goes on to b.mu.Lock(). The
\* calls are numbered in the order in which they begin (call j submits job
\* j); they run concurrently from there on.
AddJobCheck(j) ==
    /\ Alive
    /\ addPc[j] = "idle"
    /\ \A i \in JobIds : i < j => addPc[i] # "idle"
    /\ IF AddJobRejects
       THEN /\ addPc' = [addPc EXCEPT ![j] = "rejected"]
            /\ data' = data
       ELSE /\ addPc' = [addPc EXCEPT ![j] = "lock"]
            /\ data' = [data EXCEPT ![j] = JobData(j)]
    /\ UNCHANGED <<shuttingDown, jobs, mu, countdown, tickerC, schedPc, tickPc,
                   task, ch, cache, readerVars, extractedBy, age>>

\* b.mu.Lock() in AddJob.
AddJobLock(j) ==
    /\ Alive
    /\ addPc[j] = "lock"
    /\ mu = Free
    /\ mu' = ByAddJob(j)
    /\ addPc' = [addPc EXCEPT ![j] = "append"]
    /\ UNCHANGED <<shuttingDown, jobs, data, countdown, tickerC, schedPc, tickPc,
                   task, ch, cache, readerVars, extractedBy, age>>

\* A plausible slip: the new job is put at the head of the queue.
AddJobAppendFront(j) ==
    /\ Alive
    /\ addPc[j] = "append"
    /\ mu = ByAddJob(j)
    /\ jobs' = <<j>> \o jobs
    /\ mu' = Free
    /\ addPc' = [addPc EXCEPT ![j] = "returned"]
    /\ UNCHANGED <<shuttingDown, data, countdown, tickerC, schedPc, tickPc,
                   task, ch, cache, readerVars, extractedBy, age>>

\* b.jobs = append(b.jobs, newJob), the return of the JobResult, and the
\* deferred b.mu.Unlock().
AddJobAppend(j) ==
    /\ Alive
    /\ addPc[j] = "append"
    /\ mu = ByAddJob(j)
    /\ jobs' = Append(jobs, j)
    /\ mu' = Free
    /\ addPc' = [addPc EXCEPT ![j] = "returned"]
    /\ UNCHANGED <<shuttingDown, data, countdown, tickerC, schedPc, tickPc,
                   task, ch, cache, readerVars, extractedBy, age>>

\* ------------------------------------------------------------- Shutdown
\* A plausible slip: Shutdown also stops the ticker, discarding a buffered
\* firing.
ShutdownStopsTicker ==
    /\ Alive
    /\ shuttingDown' = TRUE
    /\ countdown' = Frequency
    /\ tickerC' = FALSE
    /\ UNCHANGED <<jobs, data, mu, schedPc, tickPc, addPc, task, ch, cache,
                   readerVars, extractedBy, age>>

\* b.shuttingDown = true, without the lock.
Shutdown ==
    /\ Alive
    /\ shuttingDown' = TRUE
    /\ UNCHANGED <<jobs, data, mu, countdown, tickerC, schedPc, tickPc, addPc,
                   task, ch, cache, readerVars, extractedBy, age>>

\* ---------------------------------------------------------------- Start
\* Start is entered: go b.startTicker(), then the loop.
StartCall ==
    /\ Alive
    /\ schedPc = "notstarted"
    /\ schedPc' = "eval"
    /\ tickPc' = "wait"
    /\ UNCHANGED <<shuttingDown, jobs, data, mu, countdown, tickerC, addPc,
                   task, ch, cache, readerVars, extractedBy, age>>

\* One evaluation of the switch: the cases in order, without the lock. With
\* neither case true the loop goes round again (no change of state).
StartEval ==
    /\ Alive
    /\ schedPc = "eval"
    /\ schedPc' = IF shuttingDown THEN "drain_lock"
                  ELSE IF Len(jobs) >= BatchSize THEN "size_lock"
                  ELSE "eval"
    /\ UNCHANGED <<shuttingDown, jobs, data, mu, countdown, tickerC, tickPc,
                   addPc, task, ch, cache, readerVars, extractedBy, age>>

\* b.mu.Lock() of the shuttingDown case.
StartDrainLock ==
    /\ Alive
    /\ schedPc = "drain_lock"
    /\ mu = Free
    /\ mu' = ByStart
    /\ schedPc' = "drain"
    /\ UNCHANGED <<shuttingDown, jobs, data, countdown, tickerC, tickPc, addPc,
                   task, ch, cache, readerVars, extractedBy, age>>

\* A plausible slip: the drain dispatches one batch of batchSize jobs, as the
\* size case does, and leaves the rest queued.
StartDrainFlushBatch ==
    LET n == IF Len(jobs) < BatchSize THEN Len(jobs) ELSE BatchSize
    IN  /\ processBatch(SubSeq(jobs, 1, n))
        /\ Extracted(SubSeq(jobs, 1, n), "drain")
        /\ jobs' = SubSeq(jobs, n + 1, Len(jobs))

\* A plausible slip: the drain dispatches the queue and does not replace it
\* by an empty one.
StartDrainFlushKeep ==
    /\ processBatch(jobs)
    /\ Extracted(jobs, "drain")
    /\ jobs' = jobs

\* The effect of the drain on the queue and the goroutines: the whole queue
\* is handed to processBatch and replaced by an empty one (with an empty
\* queue neither is done, which leaves the same state).
StartDrainFlush ==
    /\ processBatch(jobs)
    /\ Extracted(jobs, "drain")
    /\ jobs' = <<>>

\* The shuttingDown case under the lock, the return, and the deferred
\* b.mu.Unlock().
StartDrain ==
    /\ Alive
    /\ schedPc = "drain"
    /\ mu = ByStart
    /\ StartDrainFlush
    /\ mu' = Free
    /\ schedPc' = "done"
    /\ UNCHANGED <<shuttingDown, data, countdown, tickerC, tickPc, addPc,
                   ch, cache, readerVars>>

\* b.mu.Lock() of the len(b.jobs) >= b.batchSize case.
StartSizeLock ==
    /\ Alive
    /\ schedPc = "size_lock"
    /\ mu = Free
    /\ mu' = ByStart
    /\ schedPc' = "size"
    /\ UNCHANGED <<shuttingDown, jobs, data, countdown, tickerC, tickPc, addPc,
                   task, ch, cache, readerVars, extractedBy, age>>

\* A plausible slip: the size case dispatches the whole queue, as the timer
\* flush does.
StartSizeAll ==
    /\ Alive
    /\ schedPc = "size"
    /\ mu = ByStart
    /\ processBatch(jobs)
    /\ Extracted(jobs, "size")
    /\ jobs' = <<>>
    /\ tickerReset
    /\ mu' = Free
    /\ schedPc' = "eval"
    /\ UNCHANGED <<shuttingDown, data, tickPc, addPc, ch, cache, readerVars>>

\* The size case under the lock. b.jobs[0:b.batchSize] panics when batchSize
\* exceeds cap(b.jobs), and b.jobs[b.batchSize:] when it exceeds len(b.jobs):
\* with fewer than batchSize jobs queued one of the two panics, before
\* processBatch is reached. The panic is not recovered (the lock stays held
\* and the process ends).
StartSize ==
    /\ Alive
    /\ schedPc = "size"
    /\ mu = ByStart
    /\ IF Len(jobs) < BatchSize
       THEN /\ schedPc' = "panic"
            /\ UNCHANGED <<jobs, task, extractedBy, age, countdown, tickerC, mu>>
       ELSE /\ processBatch(SubSeq(jobs, 1, BatchSize))
            /\ Extracted(SubSeq(jobs, 1, BatchSize), "size")
            /\ jobs' = SubSeq(jobs, BatchSize + 1, Len(jobs))
            /\ tickerReset
            /\ mu' = Free
            /\ schedPc' = "eval"
    /\ UNCHANGED <<shuttingDown, data, tickPc, addPc, ch, cache, readerVars>>

\* ---------------------------------------------------------- startTicker
\* A plausible slip: the listener ends with the loop of Start (it receives no
\* firing once the drain is done).
startTickerRecvUntilDone ==
    /\ Alive
    /\ schedPc # "done"
    /\ tickPc = "wait"
    /\ tickerC
    /\ tickerC' = FALSE
    /\ tickPc' = "lock"
    /\ UNCHANGED <<shuttingDown, jobs, data, mu, countdown, schedPc, addPc,
                   task, ch, cache, readerVars, extractedBy, age>>

\* <-b.ticker.C
startTickerRecv ==
    /\ Alive
    /\ tickPc = "wait"
    /\ tickerC
    /\ tickerC' = FALSE
    /\ tickPc' = "lock"
    /\ UNCHANGED <<shuttingDown, jobs, data, mu, countdown, schedPc, addPc,
                   task, ch, cache, readerVars, extractedBy, age>>

\* b.mu.Lock() in startTicker.
startTickerLock ==
    /\ Alive
    /\ tickPc = "lock"
    /\ mu = Free
    /\ mu' = ByTicker
    /\ tickPc' = "flush"
    /\ UNCHANGED <<shuttingDown, jobs, data, countdown, tickerC, schedPc, addPc,
                   task, ch, cache, readerVars, extractedBy, age>>

\* A plausible slip: the timer flush dispatches the queue and does not
\* replace it by an empty one.
startTickerFlushKeep ==
    /\ processBatch(jobs)
    /\ Extracted(jobs, "timer")
    /\ jobs' = jobs

\* The effect of the timer flush on the queue and the goroutines:
\* b.processBatch(b.jobs); b.jobs = []batchJob[A, B]{}.
startTickerFlush ==
    /\ processBatch(jobs)
    /\ Extracted(jobs, "timer")
    /\ jobs' = <<>>

\* The flush under the lock and b.mu.Unlock(); the listener waits again.
startTickerBody ==
    /\ Alive
    /\ tickPc = "flush"
    /\ mu = ByTicker
    /\ startTickerFlush
    /\ mu' = Free
    /\ tickPc' = "wait"
    /\ UNCHANGED <<shuttingDown, data, countdown, tickerC, schedPc, addPc,
                   ch, cache, readerVars>>

\* ------------------------------------------------------------------ Get
\* Get is entered on the JobResult that AddJob returned for job j: with
\* jr.data set it returns *jr.data at once, otherwise it goes on to the
\* receive. The reader threads are interchangeable: the call is made by the
\* idle one of the lowest number.
GetCall(r, j) ==
    /\ Alive
    /\ rdPc[r] = "idle"
    /\ \A q \in Readers : q < r => rdPc[q] # "idle"
    /\ addPc[j] = "returned"
    /\ IF cache[j] # NoValue
       THEN /\ reread' = [reread EXCEPT ![j] = @ \cup {cache[j]}]
            /\ UNCHANGED <<rdPc, rdJob>>
       ELSE /\ rdPc' = [rdPc EXCEPT ![r] = "recv"]
            /\ rdJob' = [rdJob EXCEPT ![r] = j]
            /\ UNCHANGED reread
    /\ UNCHANGED <<batcherVars, task, ch, cache, received>>

\* A plausible slip: the received value is returned and not stored.
GetCacheNot(j, val) == cache' = cache

\* jr.data = &val
GetCache(j, val) == cache' = [cache EXCEPT ![j] = val]

\* val := <-jr.ch; jr.data = &val; return val. The receive blocks while the
\* channel is empty. (A reader that tests jr.data between another reader's
\* receive and its store finds nil, as one that tests it before the receive.)
GetRecv(r) ==
    /\ Alive
    /\ rdPc[r] = "recv"
    /\ ch[rdJob[r]] # NoValue
    /\ ch' = [ch EXCEPT ![rdJob[r]] = NoValue]
    /\ GetCache(rdJob[r], ch[rdJob[r]])
    /\ received' = [received EXCEPT ![rdJob[r]] = @ \cup {ch[rdJob[r]]}]
    /\ rdPc' = [rdPc EXCEPT ![r] = "idle"]
    /\ rdJob' = [rdJob EXCEPT ![r] = 0]
    /\ UNCHANGED <<batcherVars, task, reread>>

\* -------------------------------------------------------- specification
\* The batcher with its callers of AddJob, Start and Shutdown, the ticker and
\* the processJob goroutines.
NextBatcher ==
    \/ Advance
    \/ \E j \in JobIds : AddJobCheck(j)
    \/ \E j \in JobIds : AddJobLock(j)
    \/ \E j \in JobIds : AddJobAppend(j)
    \/ Shutdown
    \/ StartCall
    \/ StartEval
    \/ StartDrainLock
    \/ StartDrain
    \/ StartSizeLock
    \/ StartSize
    \/ startTickerRecv
    \/ startTickerLock
    \/ startTickerBody
    \/ \E j \in JobIds : processJob(j)

\* The batcher with measured time: AdvanceTimed in the place of Advance.
NextTimed ==
    \/ AdvanceTimed
    \/ \E j \in JobIds : AddJobCheck(j)
    \/ \E j \in JobIds : AddJobLock(j)
    \/ \E j \in JobIds : AddJobAppend(j)
    \/ Shutdown
    \/ StartCall
    \/ StartEval
    \/ StartDrainLock
    \/ StartDrain
    \/ StartSizeLock
    \/ StartSize
    \/ startTickerRecv
    \/ startTickerLock
    \/ startTickerBody
    \/ \E j \in JobIds : processJob(j)

\* The batcher under the size trigger alone: Start is running, the ticker
\* does not fire and Shutdown is not called.
NextSizeOnly ==
    \/ AdvanceNoFiring
    \/ \E j \in JobIds : AddJobCheck(j)
    \/ \E j \in JobIds : AddJobLock(j)
    \/ \E j \in JobIds : AddJobAppend(j)
    \/ StartCall
    \/ StartEval
    \/ StartSizeLock
    \/ StartSize
    \/ \E j \in JobIds : processJob(j)

\* The callers of Get.
NextGet ==
    \/ \E r \in Readers : \E j \in JobIds : GetCall(r, j)
    \/ \E r \in Readers : GetRecv(r)

Next == NextBatcher \/ NextGet

\* The whole program: the batcher and the readers of the futures.
Spec == Init /\ [][Next]_vars

\* The batcher alone: no caller reads a future (no action of the batcher
\* reads what Get changes, but for the slot that processJob fills once).
BatcherSpec == Init /\ [][NextBatcher]_vars

\* The batcher alone, with the time each job waits in the queue.
TimedSpec == Init /\ [][NextTimed]_vars

\* The batcher with neither timer firing nor Shutdown.
SizeOnlySpec == Init /\ [][NextSizeOnly]_vars

\* The scheduling the Go runtime provides: every goroutine that can run does
\* run (weak fairness of each step), time passes, and a goroutine waiting in
\* b.mu.Lock() is not passed over for ever (sync.Mutex hands the lock to a
\* waiter that has waited long: strong fairness of the acquisitions). Nothing
\* obliges a caller to call AddJob, Start, Shutdown or Get.
FairBatcher ==
    /\ WF_vars(Advance)
    /\ WF_vars(StartEval)
    /\ SF_vars(StartDrainLock)
    /\ WF_vars(StartDrain)
    /\ SF_vars(StartSizeLock)
    /\ WF_vars(StartSize)
    /\ WF_vars(startTickerRecv)
    /\ SF_vars(startTickerLock)
    /\ WF_vars(startTickerBody)
    /\ \A j \in JobIds : SF_vars(AddJobLock(j))
    /\ \A j \in JobIds : WF_vars(AddJobAppend(j))
    /\ \A j \in JobIds : WF_vars(processJob(j))

FairGet == \A r \in Readers : WF_vars(GetRecv(r))

FairBatcherSpec == BatcherSpec /\ FairBatcher

FairSpec == Spec /\ FairBatcher /\ FairGet

\* ================================================================ claims
\* The result AddJob's caller is owed for job j: the processor applied to the
\* Data the caller submitted (computed once for all jobs).
ExpectedResults == [j \in JobIds |-> processor(JobData(j))]
Expected(j) == ExpectedResults[j]

\* The future of job j is resolved: its slot is written, or was and is cached.
Resolved(j) == ch[j] # NoValue \/ cache[j] # NoValue

\* The jobs a step hands to processBatch, and the steps of the flush paths.
SizeFlushStep == schedPc = "size" /\ schedPc' # "size"
TimerFlushStep == tickPc = "flush" /\ tickPc' = "wait"
DrainStep == schedPc = "drain" /\ schedPc' = "done"
AppendStep(j) == addPc[j] = "append" /\ addPc'[j] = "returned"

\* A step dispatches exactly the jobs of batch: one processJob goroutine is
\* started for each, and for no other job.
Dispatches(batch) ==
    \A j \in JobIds :
        IF j \in SeqToSet(batch)
        THEN task[j] = "none" /\ task'[j] = "running"
        ELSE task'[j] = task[j]

\* C1: eventual delivery. With Start running, the future of every job whose
\* AddJob returned without error before Shutdown was called is eventually
\* resolved (so that a Get on it returns), under the fairness of the
\* scheduler loop, the ticker listener and the processJob goroutines.
C1_EventualDelivery ==
    \A j \in JobIds :
        (addPc[j] = "returned" /\ ~shuttingDown /\ schedPc # "notstarted")
            ~> Resolved(j)

\* C2: result pairing. In every reachable state the value in the slot of job
\* j's future, the value cached from it and every value a Get on it returned
\* is processor(job.data) of job j itself.
C2_ResultPairing ==
    \A j \in JobIds :
        /\ ch[j] \in {NoValue, Expected(j)}
        /\ cache[j] \in {NoValue, Expected(j)}
        /\ received[j] \subseteq {Expected(j)}
        /\ reread[j] \subseteq {Expected(j)}

\* Two jobs of one size batch finished out of submission order (the later
\* one has its result, the earlier one is still running), and a job flushed
\* by the timer has its result cached by a Get.
C2_Witness ==
    \E i, j, k \in JobIds :
        /\ i < j
        /\ extractedBy[i] = "size" /\ task[i] = "running"
        /\ extractedBy[j] = "size" /\ ch[j] = Expected(j)
        /\ extractedBy[k] = "timer" /\ cache[k] = Expected(k)
        /\ received[k] # {}

\* C3: an AddJob call made once Shutdown has returned (shuttingDown is set)
\* ends with the error: it returns no future, then or later, and it leaves
\* the queue as it was.
C3_RejectedAfterShutdown ==
    [][\A j \in JobIds :
          /\ (shuttingDown /\ addPc[j] = "idle" /\ addPc'[j] # "idle")
                => (addPc'[j] = "rejected" /\ jobs' = jobs /\ data' = data)
          /\ addPc[j] = "rejected"
                => (addPc'[j] = "rejected" /\ data'[j] = NoValue)]_vars

\* An AddJob call was rejected while another job, admitted before the
\* Shutdown, is still queued.
C3_Witness ==
    \E j, k \in JobIds :
        /\ addPc[j] = "rejected"
        /\ shuttingDown
        /\ jobs = <<k>>

\* C4: no admission after shutdown. No job is appended to the queue in a
\* state where shuttingDown is true.
C4_NoAppendWhileShuttingDown ==
    [][\A j \in JobIds : AppendStep(j) => ~shuttingDown]_vars

\* C5: size-triggered flush. The extraction of the size case always finds at
\* least batchSize jobs, never fails, dispatches exactly the first batchSize
\* jobs of the queue and leaves the remainder queued in order.
C5_SizeFlushExact ==
    [][SizeFlushStep =>
          /\ schedPc' = "eval"
          /\ Len(jobs) >= BatchSize
          /\ Dispatches(SubSeq(jobs, 1, BatchSize))
          /\ jobs' = SubSeq(jobs, BatchSize + 1, Len(jobs))]_vars

\* C6: timer-triggered flush. Every timer flush dispatches the entire queue,
\* whatever its length, as one batch and leaves the queue empty; a job
\* appended to the empty queue makes it a queue of that one job.
C6_TimerFlushWholeQueue ==
    [][/\ TimerFlushStep => (Dispatches(jobs) /\ jobs' = <<>>)
       /\ \A j \in JobIds :
            (AppendStep(j) /\ jobs = <<>>) => jobs' = <<j>>]_vars

\* A timer flush took a queue of a single job (fewer than batchSize), no
\* other job was ever extracted, and a job admitted afterwards is alone in
\* the queue.
C6_Witness ==
    \E j, k \in JobIds :
        /\ BatchSize > 1
        /\ extractedBy[j] = "timer"
        /\ \A i \in JobIds \ {j} : extractedBy[i] = "none"
        /\ jobs = <<k>>
        /\ tickPc = "wait"

\* C7: shutdown drain. The step by which the scheduler loop terminates
\* dispatches every job queued at that moment, as one batch, and leaves the
\* queue empty, whatever the number of jobs.
C7_DrainWholeQueue ==
    [][DrainStep => (Dispatches(jobs) /\ jobs' = <<>>)]_vars

\* The loop has terminated after a drain of more than batchSize jobs.
C7_Witness ==
    /\ schedPc = "done"
    /\ jobs = <<>>
    /\ Cardinality({j \in JobIds : extractedBy[j] = "drain"}) > BatchSize

\* C8: scheduler termination. The loop of Start is left in no other way than
\* through the shutdown drain: where it has ended, shuttingDown is true and
\* it ended by the drain.
C8_ExitOnlyThroughDrain ==
    schedPc \in {"done", "panic"} => (shuttingDown /\ schedPc = "done")

\* C9: Get is idempotent. Once a Get on a future has returned, no later Get
\* on it waits on the slot, and every value returned for that future is the
\* one returned first.
C9_GetIdempotent ==
    /\ [][\A r \in Readers : \A j \in JobIds :
            (received[j] # {} /\ rdPc[r] = "idle")
                => ~(rdPc'[r] = "recv" /\ rdJob'[r] = j)]_vars
    /\ [](\A j \in JobIds :
            /\ Cardinality(received[j] \cup reread[j]) <= 1
            /\ reread[j] \subseteq received[j])

\* A second Get on a future has returned, from the cache: the slot had been
\* emptied by the first.
C9_Witness ==
    \E j \in JobIds :
        /\ received[j] # {}
        /\ reread[j] = received[j]
        /\ ch[j] = NoValue
        /\ \A r \in Readers : rdPc[r] = "idle"

\* C10: any number of readers. No Get is left waiting on a slot that will
\* not be written again: a reader waiting in the receive has a value in the
\* slot or a processJob goroutine that has yet to write it.
C10_NoReaderStranded ==
    \A r \in Readers :
        rdPc[r] = "recv" =>
            (ch[rdJob[r]] # NoValue \/ task[rdJob[r]] # "done")

\* C11: bounded latency by the timer. No job stays queued, with Start
\* running, for more than Frequency time units: it is extracted into a batch
\* at the latest Frequency units after its append.
C11_BoundedLatency ==
    \A j \in JobIds : j \in SeqToSet(jobs) => age[j] <= Frequency

\* The state from which C11 cannot but fail, by the restart of the countdown:
\* a size flush has just left behind a job that has waited already, every
\* AddJob call has returned (no further size flush will come), and the
\* ticker, with no firing buffered or received, is a full Frequency from its
\* next firing.
C11_RestartedWithJobWaiting ==
    /\ \E j \in JobIds : jobs = <<j>> /\ age[j] >= 1
    /\ \A k \in JobIds : addPc[k] = "returned"
    /\ \E k \in JobIds : extractedBy[k] = "size"
    /\ schedPc = "eval"
    /\ ~shuttingDown
    /\ tickPc = "wait"
    /\ ~tickerC
    /\ countdown = Frequency
    /\ mu = Free

\* C12: single dispatch, single write. A queued job has not been extracted
\* and has no processJob goroutine; a job leaves the queue once, into one
\* batch, and one goroutine is started for it; its channel is written once,
\* by that goroutine, into the empty slot.
C12_SingleDispatch ==
    /\ [](\A j \in JobIds :
            /\ j \in SeqToSet(jobs) =>
                  (task[j] = "none" /\ extractedBy[j] = "none")
            /\ Cardinality({i \in 1..Len(jobs) : jobs[i] = j}) <= 1
            /\ task[j] = "running" => ch[j] = NoValue
            /\ task[j] = "none" => (ch[j] = NoValue /\ extractedBy[j] = "none"))
    /\ [][\A j \in JobIds :
            /\ extractedBy[j] # "none" => extractedBy'[j] = extractedBy[j]
            /\ extractedBy'[j] # extractedBy[j] =>
                  /\ j \in SeqToSet(jobs) /\ j \notin SeqToSet(jobs')
                  /\ task[j] = "none" /\ task'[j] = "running"
            /\ task'[j] # task[j] =>
                  \/ task[j] = "none" /\ task'[j] = "running"
                  \/ task[j] = "running" /\ task'[j] = "done"
            /\ ch'[j] # ch[j] =>
                  /\ ch[j] = NoValue
                  /\ task[j] = "running" /\ task'[j] = "done"]_vars

\* One job was extracted by the timer flush and another by the drain, a
\* third call is still waiting for the lock, and both results are written.
C12_Witness ==
    \E i, j, k \in JobIds :
        /\ extractedBy[i] = "timer" /\ task[i] = "done" /\ ch[i] = Expected(i)
        /\ extractedBy[j] = "drain" /\ task[j] = "done" /\ ch[j] = Expected(j)
        /\ addPc[k] = "lock"

\* C13: timer restart on size flush. At the end of a size flush the countdown
\* stands at Frequency and no timer flush is on its way: no firing is
\* buffered in ticker.C and the listener is not past its receive, so that
\* the next timer flush comes a full Frequency later at the earliest.
C13_NoTimerFlushAfterSizeFlush ==
    [][(schedPc = "size" /\ schedPc' = "eval") =>
          /\ countdown' = Frequency
          /\ ~tickerC'
          /\ tickPc' = "wait"]_vars

\* C13 for the listener alone: whatever becomes of a buffered firing, the
\* listener is not past its receive at the end of a size flush.
C13_ListenerNotWaiting ==
    [][(schedPc = "size" /\ schedPc' = "eval") => tickPc' = "wait"]_vars

\* C14: FIFO queue. The queue holds, once each, the jobs that were appended
\* and not yet extracted; an append puts its one job at the tail and leaves
\* the rest as it was; every other change of the queue removes a prefix of
\* it, and the jobs removed are the ones the step extracts.
C14_FifoQueue ==
    /\ [](/\ SeqToSet(jobs) = {j \in JobIds : addPc[j] = "returned"
                                               /\ extractedBy[j] = "none"}
          /\ Cardinality(SeqToSet(jobs)) = Len(jobs))
    /\ [][/\ \A j \in JobIds : AppendStep(j) => jobs' = Append(jobs, j)
          /\ (jobs' # jobs /\ \A j \in JobIds : ~AppendStep(j)) =>
                \E n \in 1..Len(jobs) :
                    /\ jobs' = SubSeq(jobs, n + 1, Len(jobs))
                    /\ \A j \in JobIds :
                          extractedBy'[j] # extractedBy[j]
                              <=> j \in SeqToSet(SubSeq(jobs, 1, n))]_vars

\* The appends took effect in another order than the calls began, a size
\* flush took the two jobs at the head, and the job appended last (of the
\* call that began first) is what is left of the queue.
C14_Witness ==
    /\ jobs = <<1>>
    /\ extractedBy[2] = "size"
    /\ extractedBy[3] = "size"
    /\ mu = Free

\* The number of jobs admitted so far: the AddJob calls that have appended.
Admitted == Cardinality({j \in JobIds : addPc[j] = "returned"})

\* C15: quiescent queue length under the size trigger alone. Where Start is
\* running and its switch has no size flush to do, with n jobs admitted the
\* queue holds n mod batchSize jobs and batchSize * (n div batchSize) jobs
\* have been dispatched, all by size flushes; each size flush dispatches one
\* batch of exactly batchSize jobs, so these are n div batchSize batches.
C15_QuiescentLength ==
    /\ []((schedPc = "eval" /\ Len(jobs) < BatchSize) =>
            /\ Len(jobs) = Admitted % BatchSize
            /\ Cardinality({j \in JobIds : task[j] # "none"})
                  = BatchSize * (Admitted \div BatchSize)
            /\ \A j \in JobIds : task[j] # "none" <=> extractedBy[j] = "size")
    /\ [][\A j \in JobIds :
            (task[j] = "none" /\ task'[j] # "none") =>
                /\ SizeFlushStep
                /\ Cardinality({i \in JobIds : task'[i] # task[i]}) = BatchSize
                /\ Dispatches(SubSeq(jobs, 1, BatchSize))]_vars

\* Scenario B of the tests: three jobs admitted with batchSize 2, the loop at
\* rest, one job left in the queue and one batch of two dispatched.
C15_Witness ==
    /\ BatchSize > 1
    /\ Admitted = BatchSize + 1
    /\ schedPc = "eval"
    /\ Len(jobs) = 1
    /\ Cardinality({j \in JobIds : extractedBy[j] = "size"}) = BatchSize

\* C16: Shutdown changes only the flag. The step that sets shuttingDown
\* changes nothing else (the queue, the lock, the goroutines, the futures and
\* the ticker are as they were); a Shutdown call made with the flag set
\* changes nothing at all; and no step resets the flag.
C16_ShutdownOnlyFlag ==
    [][/\ shuttingDown' # shuttingDown =>
             /\ shuttingDown'
             /\ UNCHANGED <<jobs, data, mu, countdown, tickerC, schedPc, tickPc,
                            addPc, task, ch, cache, readerVars, extractedBy, age>>
       /\ (shuttingDown /\ Shutdown) => UNCHANGED vars
       /\ shuttingDown => shuttingDown']_vars

\* The flag is set and the loop of Start has not seen it yet, while the
\* listener holds the lock, a job is queued, a processJob goroutine is
\* running and the ticker is not at the start of its countdown.
C16_Witness ==
    /\ shuttingDown
    /\ schedPc = "eval"
    /\ mu = ByTicker
    /\ jobs # <<>>
    /\ \E j \in JobIds : task[j] = "running"
    /\ countdown # Frequency

\* C17: Shutdown has priority over the size trigger. No size flush (a batch
\* of batchSize jobs dispatched and the ticker restarted) is performed in a
\* state where shuttingDown is true: with the flag set, the next flush of
\* the loop of Start is the drain.
C17_NoSizeFlushWhileShuttingDown ==
    [][(schedPc = "size" /\ schedPc' = "eval") => ~shuttingDown]_vars

\* C18: the timer listener outlives the shutdown drain. After the loop of
\* Start has ended, a timer flush still dispatches the whole queue and leaves
\* it empty, and every job found in the queue then (its append took effect
\* after the drain) has its future resolved eventually.
C18_ListenerOutlivesDrain ==
    /\ [][(schedPc = "done" /\ TimerFlushStep) =>
             (Dispatches(jobs) /\ jobs' = <<>>)]_vars
    /\ \A j \in JobIds :
          (schedPc = "done" /\ j \in SeqToSet(jobs)) ~> Resolved(j)

\* The loop of Start has ended and the listener holds the lock for the flush
\* of a queue that is not empty.
C18_Witness ==
    /\ schedPc = "done"
    /\ tickPc = "flush"
    /\ mu = ByTicker
    /\ jobs # <<>>

\* C19: lock discipline. b.mu is held by a thread exactly while that thread
\* is in its critical section (Start in the size case or the drain, the
\* listener in its flush, an AddJob call in its append): one holder at a
\* time, and the lock released on every path out of a critical section.
C19_LockDiscipline ==
    /\ mu = ByStart <=> schedPc \in {"size", "drain"}
    /\ mu = ByTicker <=> tickPc = "flush"
    /\ \A j \in JobIds : mu = ByAddJob(j) <=> addPc[j] = "append"
    /\ mu \in {Free, ByStart, ByTicker} \cup {ByAddJob(j) : j \in JobIds}

\* C19, the changes of the queue: every step that changes the queue is taken
\* by the holder of the lock, from its critical section.
C19_QueueChangeUnderLock ==
    [][jobs' # jobs =>
          \/ mu = ByStart /\ schedPc \in {"size", "drain"} /\ schedPc' # schedPc
          \/ mu = ByTicker /\ TimerFlushStep
          \/ \E j \in JobIds : mu = ByAddJob(j) /\ AppendStep(j)]_vars

\* C19, no deadlock: every AddJob call and every timer flush that waits for
\* the lock acquires it and completes.
C19_WaitersComplete ==
    /\ \A j \in JobIds : addPc[j] = "lock" ~> addPc[j] = "returned"
    /\ tickPc = "lock" ~> tickPc = "wait"

====
